---- MODULE Spec2Model ----
(***************************************************************************)
(* A model of nixui.options.option_tree.OptionTree: the tree of options,   *)
(* its three definition layers, the two change caches, the change marker   *)
(* that keys the memo of get_change_set_with_ancestors, template cloning   *)
(* for "attribute set of" options, and insertion and renaming.             *)
(*                                                                         *)
(* An Attribute is the sequence of its path segments (Attribute.loc).  The *)
(* treelib Tree is the function _nodes from identifier to node; a node is  *)
(* [tag, data, pred, succ] where pred is <<>> (None) or <<parent id>> and  *)
(* succ is the list of child identifiers.  A Python dict is the sequence   *)
(* of its <<key, value>> items in insertion order.                         *)
(***************************************************************************)
EXTENDS Integers, Sequences, FiniteSets, TLC

VARIABLES tree, in_memory_change_cache, configured_change_cache,
          change_marker, memo, last, ops

vars == <<tree, in_memory_change_cache, configured_change_cache,
          change_marker, memo, last, ops>>

\* ------------------------------------------------------------------ bounds

\* The number of calls (mutations and memoized queries) made on one tree.
MaxOps == 3

\* ------------------------------------------------------------ plain values

\* OptionDefinition.undefined(), and the Undefined of description/readOnly/type.
Undefined == "Undefined"

\* The concrete definitions an evaluator or a user supplies.
Definitions == {"d1", "d2"}

AnyDefinition == Definitions \cup {Undefined}

NAME == "<name>"

\* ---------------------------------------------------------------- Attribute

\* Attribute([])
Root == <<>>

\* Attribute.from_insertion(attribute_set, attribute)
from_insertion(attribute_set, attribute) == Append(attribute_set, attribute)

\* Attribute.get_set(): the path without its last segment
get_set(attribute) == SubSeq(attribute, 1, Len(attribute) - 1)

\* Attribute.get_end(): the last segment
get_end(attribute) == attribute[Len(attribute)]

\* attr[:i]
Prefix(attribute, i) == SubSeq(attribute, 1, i)

\* '<name>' in attribute: iteration over the segments, compared with ==
SegmentIn(s, attribute) == \E i \in 1..Len(attribute) : attribute[i] = s

\* list.index(s): the first position holding s (0 when there is none,
\* where Python raises ValueError)
IndexOf(s, loc) ==
  IF SegmentIn(s, loc)
  THEN CHOOSE i \in 1..Len(loc) : loc[i] = s /\ \A j \in 1..(i - 1) : loc[j] # s
  ELSE 0

IsPrefixOf(p, attribute) ==
  Len(p) <= Len(attribute) /\ SubSeq(attribute, 1, Len(p)) = p

\* ------------------------------------------------------------------ strings

\* sub in s
StrContains(sub, s) ==
  \E i \in 1..(Len(s) - Len(sub) + 1) : SubSeq(s, i, i + Len(sub) - 1) = sub

\* s.startswith(p)
StartsWith(s, p) == Len(p) <= Len(s) /\ SubSeq(s, 1, Len(p)) = p

\* s.removeprefix(p)
removeprefix(s, p) ==
  IF StartsWith(s, p) THEN SubSeq(s, Len(p) + 1, Len(s)) ELSE s

\* s.removesuffix(p)
removesuffix(s, p) ==
  IF Len(p) <= Len(s) /\ SubSeq(s, Len(s) - Len(p) + 1, Len(s)) = p
  THEN SubSeq(s, 1, Len(s) - Len(p))
  ELSE s

\* --------------------------------------------------------------- OptionData

\* OptionData(): every field at its default
OptionData ==
  [ description               |-> Undefined,
    readOnly                  |-> Undefined,
    _type                     |-> Undefined,
    system_default_definition |-> Undefined,
    configured_definition     |-> Undefined,
    in_memory_definition      |-> Undefined ]

\* OptionData(_type='attribute set')
PlainData == [OptionData EXCEPT !["_type"] = "attribute set"]

\* An update that replaces the record: the fields new does not name are reset
update_replaces(self, new) == [ f \in DOMAIN self |-> IF f \in DOMAIN new THEN new[f] ELSE IF f = "_type" /\ "type" \in DOMAIN new THEN new["type"] ELSE Undefined ]

\* OptionData.update(new): a key sets the field of its name, else the field
\* named '_' + key; a key matching neither is ignored
update(self, new) ==
  [ f \in DOMAIN self |->
      IF f \in DOMAIN new THEN new[f]
      ELSE IF Len(f) > 1 /\ SubSeq(f, 1, 1) = "_" /\ SubSeq(f, 2, Len(f)) \in DOMAIN new
           THEN new[SubSeq(f, 2, Len(f))]
           ELSE self[f] ]

\* --------------------------------------------------------------------- dict

DictKeys(d) == { d[i][1] : i \in 1..Len(d) }

DictHas(d, k) == k \in DictKeys(d)

DictGet(d, k) == d[CHOOSE i \in 1..Len(d) : d[i][1] = k][2]

\* d[k] = v: an existing key keeps its place, a new key goes last
DictSet(d, k, v) ==
  IF DictHas(d, k)
  THEN [ i \in 1..Len(d) |-> IF d[i][1] = k THEN <<k, v>> ELSE d[i] ]
  ELSE Append(d, <<k, v>>)

\* del d[k]
DictDel(d, k) == SelectSeq(d, LAMBDA e : e[1] # k)

\* ------------------------------------------------------------ treelib Tree

NoException == "none"

\* Node(tag, identifier, data) with its pointers in this tree
TreeNode(identifier, data, pred, succ) ==
  [ tag |-> identifier, data |-> data, pred |-> pred, succ |-> succ ]

\* Tree(); create_node(identifier=Attribute([]), data=OptionData(_type='attribute set'))
EmptyTree == [ nid \in {Root} |-> TreeNode(Root, PlainData, <<>>, <<>>) ]

\* identifier in tree / tree.get_node(identifier) is not None
Contains(t, nid) == nid \in DOMAIN t

\* tree.create_node(child, child, parent=parent, data=data), for a child that
\* is not in the tree and a parent that is: the node is registered and
\* appended to the parent's successors
create_node(t, child, parent, data) ==
  [ nid \in DOMAIN t \cup {child} |->
      IF nid = child THEN TreeNode(child, data, <<parent>>, <<>>)
      ELSE IF nid = parent THEN [t[nid] EXCEPT !.succ = Append(@, child)]
      ELSE t[nid] ]

\* tree.update_node(nid, data=data)
update_node_data(t, nid, data) == [t EXCEPT ![nid].data = data]

\* The identifiers tree.expand_tree(nid) visits: nid and everything reached
\* from it through successors lists.
RECURSIVE Reach(_, _, _)
Reach(t, frontier, seen) ==
  IF frontier = {} THEN seen
  ELSE LET next == UNION { { t[n].succ[i] : i \in 1..Len(t[n].succ) }
                           : n \in frontier \cap DOMAIN t }
       IN  Reach(t, next \ (seen \cup frontier), seen \cup frontier)

Descendants(t, nid) == Reach(t, {nid}, {})

\* tree.subtree(nid) walks the successors lists and looks every identifier
\* up: one that is not registered raises NodeIDAbsentError.
SubtreeIds(t, nid) == Descendants(t, nid)

\* tree.paste(nid, new_tree): ValueError when an identifier of new_tree is
\* already registered; else every node of new_tree is registered, its root
\* gets nid as predecessor and is appended to nid's successors.
PasteCollides(t, branch) == DOMAIN branch.nodes \cap DOMAIN t # {}

paste(t, nid, branch) ==
  [ k \in DOMAIN t \cup DOMAIN branch.nodes |->
      IF k \in DOMAIN branch.nodes
      THEN IF k = branch.root
           THEN [branch.nodes[k] EXCEPT !.pred = <<nid>>]
           ELSE branch.nodes[k]
      ELSE IF k = nid THEN [t[k] EXCEPT !.succ = Append(@, branch.root)]
      ELSE t[k] ]

\* ------------------------------------------------------- template cloning

\* _is_attribute_set: 'attribute set of' in data._type (a substring test)
_is_attribute_set(t, attribute) ==
  StrContains("attribute set of", t[attribute].data["_type"])

\* loc[loc.index('<name>')] = attribute.loc[-1]: the FIRST '<name>' segment
\* of the identifier is replaced by the new segment
SubstituteName(loc, segment) == [loc EXCEPT ![IndexOf(NAME, loc)] = segment]

\* The submodule case: Tree(self.tree.subtree(p.<name>), deep=True), every
\* node relabelled by SubstituteName; the copy's root has no predecessor.
SubmoduleBranch(t, attribute) ==
  LET spec == from_insertion(get_set(attribute), NAME)
      ids  == SubtreeIds(t, spec)
      seg  == get_end(attribute)
      new(nid) == SubstituteName(nid, seg)
      old(k)   == CHOOSE nid \in ids : new(nid) = k
  IN  [ root  |-> new(spec),
        nodes |-> [ k \in { new(nid) : nid \in ids } |->
                      TreeNode(k,
                               t[old(k)].data,
                               IF old(k) = spec THEN <<>>
                               ELSE <<new(t[old(k)].pred[1])>>,
                               [ i \in 1..Len(t[old(k)].succ) |->
                                   new(t[old(k)].succ[i]) ]) ] ]

\* The element type with the plural left in place
ElementType_keeps_plural(type) == removeprefix(type, "attribute set of ")

\* The other case: a single node holding data.copy() with the type
\* data._type.removeprefix('attribute set of ').removesuffix('s')
ElementType(type) == removesuffix(removeprefix(type, "attribute set of "), "s")

ScalarBranch(t, attribute) ==
  LET data == t[get_set(attribute)].data
      spec == [data EXCEPT !["_type"] = ElementType(data["_type"])]
  IN  [ root  |-> attribute,
        nodes |-> [ k \in {attribute} |-> TreeNode(attribute, spec, <<>>, <<>>) ] ]

\* What _get_attribute_set_template_branch raises: subtree() raises
\* NodeIDAbsentError when p.<name> or a listed successor is not registered,
\* loc.index raises ValueError on an identifier without a '<name>' segment.
TemplateException(t, attribute) ==
  LET spec == from_insertion(get_set(attribute), NAME)
  IN  IF t[get_set(attribute)].data["_type"] # "attribute set of submodules"
      THEN NoException
      ELSE IF ~Contains(t, spec) \/ ~(SubtreeIds(t, spec) \subseteq DOMAIN t)
      THEN "NodeIDAbsentError"
      ELSE IF \E nid \in SubtreeIds(t, spec) : ~SegmentIn(NAME, nid)
      THEN "ValueError"
      ELSE NoException

_get_attribute_set_template_branch(t, attribute) ==
  IF t[get_set(attribute)].data["_type"] = "attribute set of submodules"
  THEN SubmoduleBranch(t, attribute)
  ELSE ScalarBranch(t, attribute)

\* ------------------------------------------------------------------ upsert

\* One step of the loop of _upsert_node_data: the child at path[:i] is
\* created when it is missing.  The result is [tree, exc].
UpsertStep(t, option_path, i) ==
  LET parent == Prefix(option_path, i - 1)
      child  == Prefix(option_path, i)
  IN  IF Contains(t, child) THEN [tree |-> t, exc |-> NoException]
      ELSE IF ~Contains(t, parent)
      THEN [tree |-> t, exc |-> "AttributeError"]   \* get_node(parent).data on None
      ELSE IF t[parent].data["_type"] = Undefined
      THEN [tree |-> t, exc |-> "TypeError"]        \* 'attribute set of' in Undefined
      ELSE IF _is_attribute_set(t, parent) /\ get_end(child) # NAME
      THEN IF TemplateException(t, child) # NoException
           THEN [tree |-> t, exc |-> TemplateException(t, child)]
           ELSE LET new_branch == _get_attribute_set_template_branch(t, child)
                IN  IF PasteCollides(t, new_branch)
                    THEN [tree |-> t, exc |-> "ValueError"]
                    ELSE [tree |-> paste(t, parent, new_branch), exc |-> NoException]
      ELSE [tree |-> create_node(t, child, parent, PlainData), exc |-> NoException]

RECURSIVE UpsertWalk(_, _, _)
UpsertWalk(t, option_path, i) ==
  IF i > Len(option_path) THEN [tree |-> t, exc |-> NoException]
  ELSE LET r == UpsertStep(t, option_path, i)
       IN  IF r.exc # NoException THEN r
           ELSE UpsertWalk(r.tree, option_path, i + 1)

\* _upsert_node_data(option_path, option_data_dict): the branch is inserted
\* when the node is missing, then the dict is merged into the node's data.
\* An exception leaves the nodes created before it in the tree.
_upsert_node_data(t, option_path, option_data_dict) ==
  LET w == IF Contains(t, option_path)
           THEN [tree |-> t, exc |-> NoException]
           ELSE UpsertWalk(t, option_path, 1)
  IN  IF w.exc # NoException THEN w
      ELSE IF ~Contains(w.tree, option_path)
      THEN [tree |-> w.tree, exc |-> "AttributeError"]  \* get_node(option_path).data on None
      ELSE [tree |-> update_node_data(w.tree, option_path,
                        update(w.tree[option_path].data, option_data_dict)),
            exc  |-> NoException]

\* ------------------------------------------------------------ construction

\* The first loop of __init__ over the sorted system_option_data items; an
\* exception of an upsert ends the construction.  The result is [tree, exc].
RECURSIVE LoadSystemOptions(_, _, _)
LoadSystemOptions(st, items, i) ==
  IF i > Len(items) \/ st.exc # NoException THEN st
  ELSE LoadSystemOptions(_upsert_node_data(st.tree, items[i][1], items[i][2]),
                         items, i + 1)

\* One pass of the second loop of __init__ for an entry whose upsert
\* returned r: the definition is recorded unless the upsert raised
ConfigLoaded(st, option_path, option_definition, r) ==
  [ tree  |-> r.tree,
    cache |-> IF r.exc = NoException
              THEN DictSet(st.cache, option_path, option_definition)
              ELSE st.cache,
    exc   |-> r.exc ]

\* The second loop of __init__ without the test for an existing node
RECURSIVE LoadConfigOptions_upserts_absent(_, _, _)
LoadConfigOptions_upserts_absent(st, items, i) ==
  IF i > Len(items) \/ st.exc # NoException THEN st
  ELSE LoadConfigOptions_upserts_absent(
         ConfigLoaded(st, items[i][1], items[i][2],
                      _upsert_node_data(st.tree, items[i][1],
                                        [configured_definition |-> items[i][2]])),
         items, i + 1)

\* The second loop of __init__ over config_options.items(): an entry whose
\* node exists sets configured_definition and is recorded in
\* configured_change_cache; any other entry is logged and skipped.  The
\* result is [tree, cache, exc].
RECURSIVE LoadConfigOptions(_, _, _)
LoadConfigOptions(st, items, i) ==
  IF i > Len(items) \/ st.exc # NoException THEN st
  ELSE LET option_path == items[i][1]
           option_definition == items[i][2]
       IN  IF Contains(st.tree, option_path)
           THEN LoadConfigOptions(
                  ConfigLoaded(st, option_path, option_definition,
                               _upsert_node_data(st.tree, option_path,
                                 [configured_definition |-> option_definition])),
                  items, i + 1)
           ELSE LoadConfigOptions(st, items, i + 1)

\* The object after the first loop, which returned r: the caches are empty
SystemLoaded(r) == [ tree |-> r.tree, cache |-> <<>>, exc |-> r.exc ]

\* OptionTree(system_option_data, config_options)
Construct(system_option_data, config_options) ==
  LoadConfigOptions(
    SystemLoaded(LoadSystemOptions([tree |-> EmptyTree, exc |-> NoException],
                                   system_option_data, 1)),
    config_options, 1)

\* ------------------------------------------------------------------ getters

\* _get_data raises (AttributeError: get_node returns None) for an attribute
\* that has no node
GetDataRaises(t, attribute) == ~Contains(t, attribute)

get_in_memory_definition(t, attribute) == t[attribute].data.in_memory_definition

get_configured_definition(t, attribute) == t[attribute].data.configured_definition

get_system_default_definition(t, attribute) == t[attribute].data.system_default_definition

\* get_definition with the configured layer consulted before the in-memory one
get_definition_configured_first(t, attribute, include_in_memory_definition, include_configured_change) ==
  IF include_configured_change /\ get_configured_definition(t, attribute) # Undefined
  THEN get_configured_definition(t, attribute)
  ELSE IF include_in_memory_definition /\ get_in_memory_definition(t, attribute) # Undefined
  THEN get_in_memory_definition(t, attribute)
  ELSE IF get_system_default_definition(t, attribute) # Undefined
  THEN get_system_default_definition(t, attribute)
  ELSE Undefined

\* get_definition(attribute, include_in_memory_definition, include_configured_change)
get_definition(t, attribute, include_in_memory_definition, include_configured_change) ==
  IF include_in_memory_definition /\ get_in_memory_definition(t, attribute) # Undefined
  THEN get_in_memory_definition(t, attribute)
  ELSE IF include_configured_change /\ get_configured_definition(t, attribute) # Undefined
  THEN get_configured_definition(t, attribute)
  ELSE IF get_system_default_definition(t, attribute) # Undefined
  THEN get_system_default_definition(t, attribute)
  ELSE Undefined

\* ------------------------------------------------------------- iter_changes

\* The generator run to its end: the triples it yields, in the order of the
\* cache's items, and the exception that ends it early (get_definition on a
\* key that has no node).
RECURSIVE IterChangesFrom(_, _, _, _, _)
IterChangesFrom(t, change_cache, get_configured_changes, i, yielded) ==
  IF i > Len(change_cache) THEN [yielded |-> yielded, exc |-> NoException]
  ELSE LET attr == change_cache[i][1]
           new_definition == change_cache[i][2]
       IN  IF GetDataRaises(t, attr)
           THEN [yielded |-> yielded, exc |-> "AttributeError"]
           ELSE LET old_definition ==
                      get_definition(t, attr, FALSE, ~get_configured_changes)
                IN  IterChangesFrom(t, change_cache, get_configured_changes, i + 1,
                      IF new_definition # old_definition
                      THEN Append(yielded, <<attr, old_definition, new_definition>>)
                      ELSE yielded)

iter_changes(t, in_memory_cache, configured_cache, get_configured_changes) ==
  IterChangesFrom(t,
                  IF get_configured_changes THEN configured_cache ELSE in_memory_cache,
                  get_configured_changes, 1, <<>>)

\* The body of get_change_set_with_ancestors, without its lru_cache: attr[:i]
\* for i in range(len(attr)), over the attributes iter_changes yields.
ChangeSetWithAncestors(t, in_memory_cache, configured_cache, get_configured_changes) ==
  LET it == iter_changes(t, in_memory_cache, configured_cache, get_configured_changes)
  IN  [ exc   |-> it.exc,
        value |-> IF it.exc # NoException THEN {}
                  ELSE UNION { { Prefix(it.yielded[k][1], i)
                                 : i \in 0..(Len(it.yielded[k][1]) - 1) }
                               : k \in 1..Len(it.yielded) } ]

\* ------------------------------------------------------------------- rename

\* The depth at which the recursion of rename_attribute is cut off: deeper
\* than any tree of the model, so only a cycle of pointers reaches it.
RecursionLimit == 8

\* list[list.index(old)] = new
ReplaceFirst(list, old, new) == [list EXCEPT ![IndexOf(old, list)] = new]

\* for fp in cn.successors: self[fp].set_predecessor(val)
RECURSIVE SetPredecessors(_, _, _, _)
SetPredecessors(t, val, list, i) ==
  IF i > Len(list) THEN [tree |-> t, exc |-> NoException]
  ELSE IF ~Contains(t, list[i]) THEN [tree |-> t, exc |-> "NodeIDAbsentError"]
  ELSE SetPredecessors([t EXCEPT ![list[i]].pred = <<val>>], val, list, i + 1)

\* tree.update_node(nid, identifier=val, tag=val): the node is registered
\* under val (replacing a node already registered there), val replaces nid
\* in the predecessor's successors, the successors get val as predecessor,
\* and last the tag is set.
update_node_identifier(t, nid, val) ==
  IF ~Contains(t, nid) THEN [tree |-> t, exc |-> "NodeIDAbsentError"]
  ELSE
    LET cn == t[nid]
        t1 == [ k \in (DOMAIN t \ {nid}) \cup {val} |-> IF k = val THEN cn ELSE t[k] ]
        p  == cn.pred[1]
        r2 == IF cn.pred = <<>> THEN [tree |-> t1, exc |-> NoException]
              ELSE IF ~Contains(t1, p) THEN [tree |-> t1, exc |-> "NodeIDAbsentError"]
              ELSE IF ~SegmentIn(nid, t1[p].succ) THEN [tree |-> t1, exc |-> "ValueError"]
              ELSE [tree |-> [t1 EXCEPT ![p].succ = ReplaceFirst(@, nid, val)],
                    exc  |-> NoException]
        r3 == IF r2.exc # NoException THEN r2
              ELSE SetPredecessors(r2.tree, val, r2.tree[val].succ, 1)
    IN  IF r3.exc # NoException THEN r3
        ELSE [tree |-> [r3.tree EXCEPT ![val].tag = val], exc |-> NoException]

\* rename_attribute(old_attribute, new_attribute): the node is relabelled, then
\* each of its children, taken from the list tree.children(new_attribute)
\* returned, is renamed to new_attribute + its own last segment.
RECURSIVE rename_attribute(_, _, _, _)
RECURSIVE RenameChildren(_, _, _, _, _)
rename_attribute(t, old_attribute, new_attribute, depth) ==
  IF depth > RecursionLimit THEN [tree |-> t, exc |-> "RecursionError"]
  ELSE LET r == update_node_identifier(t, old_attribute, new_attribute)
       IN  IF r.exc # NoException THEN r
           ELSE IF ~(\A i \in 1..Len(r.tree[new_attribute].succ) :
                        Contains(r.tree, r.tree[new_attribute].succ[i]))
           THEN [tree |-> r.tree, exc |-> "NodeIDAbsentError"]
           ELSE RenameChildren(r.tree, new_attribute, r.tree[new_attribute].succ, 1, depth)

RenameChildren(t, new_attribute, children, i, depth) ==
  IF i > Len(children) THEN [tree |-> t, exc |-> NoException]
  ELSE IF children[i] = Root THEN [tree |-> t, exc |-> "IndexError"]
  ELSE LET new_child == from_insertion(new_attribute, get_end(children[i]))
           \* node.identifier is read when the loop reaches the node: a node
           \* listed twice was renamed at its first place
           old_child == IF \E j \in 1..(i - 1) : children[j] = children[i]
                        THEN new_child ELSE children[i]
           r == rename_attribute(t, old_child, new_child, depth + 1)
       IN  IF r.exc # NoException THEN r
           ELSE RenameChildren(r.tree, new_attribute, children, i + 1, depth)

\* ------------------------------------------------------------- the fixture

A == <<"a">>
AB == <<"a", "b">>
ABC == <<"a", "b", "c">>
AD == <<"a", "d">>
AK == <<"a", "k">>
AKJ == <<"a", "k", "j">>
K == <<"k">>
M == <<"m">>
MName == <<"m", NAME>>
MNameN == <<"m", NAME, "n">>
MNameNName == <<"m", NAME, "n", NAME>>
MNameNBar == <<"m", NAME, "n", "bar">>
MFoo == <<"m", "foo">>
MFooN == <<"m", "foo", "n">>
MFooNName == <<"m", "foo", "n", NAME>>
MFooNBar == <<"m", "foo", "n", "bar">>
MBar == <<"m", "bar">>
O == <<"o">>
OX == <<"o", "x">>
S == <<"s">>
SBar == <<"s", "bar">>
ZQ == <<"z", "q">>

\* system_option_data.items() as sorted by __init__ (parents first): a plain
\* option below two plain attribute sets, an option whose dict carries the
\* 'default' key of the docstring, an attribute set of submodules whose
\* template holds another attribute set of submodules, an option that is
\* an attribute set or null, and an attribute set of strings.
SystemOptionData ==
  << <<ABC, [ type |-> "string", description |-> "an option", readOnly |-> "False",
              system_default_definition |-> "d1" ]>>,
     <<AD, [ type |-> "signed integer", default |-> "d2" ]>>,
     <<M, [ type |-> "attribute set of submodules", description |-> "instances" ]>>,
     <<MNameN, [ type |-> "attribute set of submodules" ]>>,
     <<MNameNName, [ type |-> "string", system_default_definition |-> "d1" ]>>,
     <<O, [ type |-> "null or attribute set of strings" ]>>,
     <<S, [ type |-> "attribute set of strings", description |-> "names" ]>> >>

\* The config_options.items() a tree is constructed from: a definition equal
\* to the system default, definitions that differ from it, and an entry for
\* an attribute that system_option_data does not know.
ConfigOptionChoices ==
  { << <<ABC, "d1">>, <<S, "d1">> >>,
    << <<ABC, "d2">>, <<ZQ, "d1">>, <<AD, "d1">> >> }

\* The <<option_path, option_definition>> set_definition is called with.
SetCalls ==
  { <<ABC, Undefined>>, <<ABC, "d1">>, <<ABC, "d2">>, <<S, "d1">>, <<SBar, "d2">>,
    <<MFooNBar, "d1">>, <<MNameNBar, "d1">> }

\* The attributes insert_attribute is called with.
InsertAttributes == { ABC, SBar, MFoo, AK, AKJ, OX }

\* The <<old_attribute, new_attribute>> rename_attribute is called with: a
\* subtree, a cloned instance, a leaf onto an existing sibling, a leaf to
\* another parent, and an attribute that has no node.
RenamePairs ==
  { <<A, K>>, <<MFoo, MBar>>, <<AD, AB>>, <<ABC, SBar>>, <<ZQ, K>> }

\* ------------------------------------------------------------------ actions

\* The record of the last call: its arguments (config_options for the
\* constructor, mode for children), the exception it raised and the value it
\* returned (value: a set of attributes, result: a field of a record), and
\* what held when it was made (whether the attribute had a node, whether it
\* was a key of in_memory_change_cache, and whether the call before was this
\* same call).
NoCall ==
  [ op |-> "construct", attribute |-> Root, definition |-> Undefined,
    new_attribute |-> Root, flag |-> FALSE, exc |-> NoException, value |-> {},
    existed |-> FALSE, was_cached |-> FALSE, repeated |-> FALSE,
    config_options |-> <<>>, mode |-> "direct", result |-> Undefined ]

Init ==
  \E config_options \in ConfigOptionChoices :
    LET built == Construct(SystemOptionData, config_options)
    IN  /\ tree = built.tree
        /\ configured_change_cache = built.cache
        /\ in_memory_change_cache = <<>>
        /\ change_marker = 0
        /\ memo = {}
        /\ last = [NoCall EXCEPT !.config_options = config_options,
                                 !.exc = built.exc]
        /\ ops = 0

\* _update_in_memory_change_cache comparing with the system default
UpdatedCache_against_default(t, cache, attribute, option_definition) ==
  IF t[attribute].data.in_memory_definition = t[attribute].data.system_default_definition
  THEN IF DictHas(cache, attribute) THEN DictDel(cache, attribute) ELSE cache
  ELSE DictSet(cache, attribute, option_definition)

\* _update_in_memory_change_cache without the branch that deletes the key
UpdatedCache_never_deletes(t, cache, attribute, option_definition) ==
  DictSet(cache, attribute, option_definition)

\* _update_in_memory_change_cache adding an item on every call
UpdatedCache_appends(t, cache, attribute, option_definition) ==
  IF t[attribute].data.in_memory_definition = t[attribute].data.configured_definition
  THEN IF DictHas(cache, attribute) THEN DictDel(cache, attribute) ELSE cache
  ELSE Append(cache, <<attribute, option_definition>>)

\* _update_in_memory_change_cache(attribute, option_definition), on the cache
UpdatedCache(t, cache, attribute, option_definition) ==
  IF t[attribute].data.in_memory_definition = t[attribute].data.configured_definition
  THEN IF DictHas(cache, attribute) THEN DictDel(cache, attribute) ELSE cache
  ELSE DictSet(cache, attribute, option_definition)

\* set_definition(option_path, option_definition): an exception of the upsert
\* leaves the cache and the marker as they were
SetDefinition(option_path, option_definition) ==
  /\ ops < MaxOps
  /\ LET r == _upsert_node_data(tree, option_path,
                                [in_memory_definition |-> option_definition])
     IN  /\ tree' = r.tree
         /\ IF r.exc = NoException
            THEN /\ in_memory_change_cache' =
                      UpdatedCache(r.tree, in_memory_change_cache,
                                   option_path, option_definition)
                 /\ change_marker' = change_marker + 1    \* uuid.uuid4(): a fresh value
            ELSE UNCHANGED <<in_memory_change_cache, change_marker>>
         /\ last' = [NoCall EXCEPT
                       !.op = "set_definition", !.attribute = option_path,
                       !.definition = option_definition, !.exc = r.exc,
                       !.existed = Contains(tree, option_path),
                       !.was_cached = DictHas(in_memory_change_cache, option_path),
                       !.repeated = /\ last.op = "set_definition"
                                    /\ last.attribute = option_path
                                    /\ last.definition = option_definition]
  /\ ops' = ops + 1
  /\ UNCHANGED <<configured_change_cache, memo>>

\* insert_attribute(attribute)
InsertAttribute(attribute) ==
  /\ ops < MaxOps
  /\ LET r == _upsert_node_data(tree, attribute, <<>>)
     IN  /\ tree' = r.tree
         /\ last' = [NoCall EXCEPT !.op = "insert_attribute", !.attribute = attribute,
                                   !.exc = r.exc,
                                   !.existed = Contains(tree, attribute)]
  /\ ops' = ops + 1
  /\ UNCHANGED <<in_memory_change_cache, configured_change_cache, change_marker, memo>>

\* rename_attribute(old_attribute, new_attribute)
RenameAttribute(old_attribute, new_attribute) ==
  /\ ops < MaxOps
  /\ LET r == rename_attribute(tree, old_attribute, new_attribute, 1)
     IN  /\ tree' = r.tree
         /\ last' = [NoCall EXCEPT !.op = "rename_attribute", !.attribute = old_attribute,
                                   !.new_attribute = new_attribute, !.exc = r.exc,
                                   !.existed = Contains(tree, old_attribute)]
  /\ ops' = ops + 1
  /\ UNCHANGED <<in_memory_change_cache, configured_change_cache, change_marker, memo>>

\* The lru_cache entry a call with this flag finds: the key hashes to
\* hash(change_marker) and compares equal on the tree's identity and the flag.
MemoHit(get_configured_changes) ==
  { e \in memo : e.marker = change_marker /\ e.flag = get_configured_changes }

\* get_change_set_with_ancestors(get_configured_changes) through its
\* lru_cache: a hit returns the stored set, a miss computes and stores it (an
\* exception stores nothing).
GetChangeSetWithAncestors(get_configured_changes) ==
  /\ ops < MaxOps
  /\ LET fresh == ChangeSetWithAncestors(tree, in_memory_change_cache,
                                         configured_change_cache, get_configured_changes)
         hit   == MemoHit(get_configured_changes)
     IN  IF hit # {}
         THEN /\ memo' = memo
              /\ last' = [NoCall EXCEPT !.op = "get_change_set_with_ancestors",
                                        !.flag = get_configured_changes,
                                        !.value = (CHOOSE e \in hit : TRUE).value]
         ELSE /\ memo' = IF fresh.exc = NoException
                         THEN memo \cup { [ marker |-> change_marker,
                                            flag   |-> get_configured_changes,
                                            value  |-> fresh.value ] }
                         ELSE memo
              /\ last' = [NoCall EXCEPT !.op = "get_change_set_with_ancestors",
                                        !.flag = get_configured_changes,
                                        !.exc = fresh.exc, !.value = fresh.value]
  /\ ops' = ops + 1
  /\ UNCHANGED <<tree, in_memory_change_cache, configured_change_cache, change_marker>>

Next ==
  \/ \E call \in SetCalls : SetDefinition(call[1], call[2])
  \/ \E attribute \in InsertAttributes : InsertAttribute(attribute)
  \/ \E pair \in RenamePairs : RenameAttribute(pair[1], pair[2])
  \/ \E get_configured_changes \in BOOLEAN :
       GetChangeSetWithAncestors(get_configured_changes)

Spec == Init /\ [][Next]_vars

\* -------------------------------------------------------------------- reads

\* get_type, get_description, is_readonly: a field of the record _get_data
\* returns
get_type(t, attribute) == t[attribute].data["_type"]

get_description(t, attribute) == t[attribute].data.description

is_readonly(t, attribute) == t[attribute].data.readOnly

\* An accessor that returns the default of the field for a missing node
Accessed_returns_default(t, attribute, result) == [exc |-> NoException, result |-> IF GetDataRaises(t, attribute) THEN Undefined ELSE result]

\* A call of an accessor that goes through _get_data: [exc, result].  With no
\* node, get_node returns None and reading .data of it raises AttributeError.
Accessed(t, attribute, result) ==
  IF GetDataRaises(t, attribute)
  THEN [exc |-> "AttributeError", result |-> Undefined]
  ELSE [exc |-> NoException, result |-> result]

\* The segment the filter of children looks for: '"<name>"', quotes included
QuotedNAME == "\"<name>\""

\* tree.children(nid): the nodes of nid's successors list, each looked up in
\* the tree; tree.leaves(nid): the nodes expand_tree(nid) visits that have
\* no successors.  Both raise NodeIDAbsentError for an identifier that is not
\* registered.
TreeChildren(t, nid) == { t[nid].succ[i] : i \in 1..Len(t[nid].succ) }

TreeLeaves(t, nid) == { n \in Descendants(t, nid) : t[n].succ = <<>> }

\* The filter of children: '"<name>"' not in node.tag
KeptChild(tag) == ~SegmentIn(QuotedNAME, tag)

\* children(attribute, mode): [exc, value], value the keys (tags) of the dict
\* returned.  An exception raised in the try block (NodeIDAbsentError of
\* treelib, ValueError of the else branch) reaches the except clause, whose
\* expression treelib.exceptions.NodeIDAbsentError names a module this file
\* never imports: evaluating it raises NameError.
children(t, attribute, mode) ==
  IF mode \notin {"direct", "leaves"}
  THEN [exc |-> "NameError", value |-> {}]
  ELSE IF ~Contains(t, attribute)
  THEN [exc |-> "NameError", value |-> {}]
  ELSE LET visited == IF mode = "direct" THEN TreeChildren(t, attribute)
                      ELSE Descendants(t, attribute)
           found   == IF mode = "direct" THEN TreeChildren(t, attribute)
                      ELSE TreeLeaves(t, attribute)
       IN  IF ~(visited \subseteq DOMAIN t)
           THEN [exc |-> "NameError", value |-> {}]
           ELSE [exc |-> NoException,
                 value |-> { t[n].tag : n \in { c \in found : KeptChild(t[c].tag) } }]

\* get_next_branching_option(attribute): [exc, value].  While the dict that
\* children returns has one item the loop body reads children(attribute)[0],
\* and 0 is not a key of a dict keyed by Attribute: KeyError.
get_next_branching_option(t, attribute) ==
  LET c == children(t, attribute, "direct")
  IN  IF c.exc # NoException THEN [exc |-> c.exc, value |-> {}]
      ELSE IF Cardinality(c.value) = 1 THEN [exc |-> "KeyError", value |-> {}]
      ELSE [exc |-> NoException, value |-> {attribute}]

\* iter_attribute_data(): the identifiers of the nodes of tree.all_nodes()
\* with '<name>' not in node.tag
iter_attribute_data(t) == { n \in DOMAIN t : ~SegmentIn(NAME, t[n].tag) }

\* iter_attributes(): the attributes iter_attribute_data yields
iter_attributes(t) == iter_attribute_data(t)

\* The attributes the reads are called with: the root, an attribute set with
\* one child, an option, an attribute set with a template, and an attribute
\* that has no node.
ReadAttributes == { Root, AB, ABC, M, ZQ }

\* The modes children is called with
Modes == { "direct", "leaves", "full" }

\* The record of a call that returns r = [exc, ...]
ReadRecord(op, attribute, mode, r) ==
  [NoCall EXCEPT !.op = op, !.attribute = attribute, !.mode = mode,
                 !.exc = r.exc,
                 !.existed = Contains(tree, attribute),
                 !.value = IF "value" \in DOMAIN r THEN r.value ELSE {},
                 !.result = IF "result" \in DOMAIN r THEN r.result ELSE Undefined]

\* What a read leaves as it was: everything but the record of the last call
readvars == <<tree, in_memory_change_cache, configured_change_cache,
              change_marker, memo, ops>>

GetDefinition(attribute) ==
  /\ last' = ReadRecord("get_definition", attribute, "direct",
               Accessed(tree, attribute, get_definition(tree, attribute, TRUE, TRUE)))
  /\ UNCHANGED readvars

GetInMemoryDefinition(attribute) ==
  /\ last' = ReadRecord("get_in_memory_definition", attribute, "direct",
               Accessed(tree, attribute, get_in_memory_definition(tree, attribute)))
  /\ UNCHANGED readvars

GetConfiguredDefinition(attribute) ==
  /\ last' = ReadRecord("get_configured_definition", attribute, "direct",
               Accessed(tree, attribute, get_configured_definition(tree, attribute)))
  /\ UNCHANGED readvars

GetSystemDefaultDefinition(attribute) ==
  /\ last' = ReadRecord("get_system_default_definition", attribute, "direct",
               Accessed(tree, attribute, get_system_default_definition(tree, attribute)))
  /\ UNCHANGED readvars

GetType(attribute) ==
  /\ last' = ReadRecord("get_type", attribute, "direct",
               Accessed(tree, attribute, get_type(tree, attribute)))
  /\ UNCHANGED readvars

GetDescription(attribute) ==
  /\ last' = ReadRecord("get_description", attribute, "direct",
               Accessed(tree, attribute, get_description(tree, attribute)))
  /\ UNCHANGED readvars

IsReadonly(attribute) ==
  /\ last' = ReadRecord("is_readonly", attribute, "direct",
               Accessed(tree, attribute, is_readonly(tree, attribute)))
  /\ UNCHANGED readvars

Children(attribute, mode) ==
  /\ last' = ReadRecord("children", attribute, mode, children(tree, attribute, mode))
  /\ UNCHANGED readvars

GetNextBranchingOption(attribute) ==
  /\ last' = ReadRecord("get_next_branching_option", attribute, "direct",
               get_next_branching_option(tree, attribute))
  /\ UNCHANGED readvars

IterAttributeData ==
  /\ last' = ReadRecord("iter_attribute_data", Root, "direct",
               [exc |-> NoException, value |-> iter_attribute_data(tree)])
  /\ UNCHANGED readvars

IterAttributes ==
  /\ last' = ReadRecord("iter_attributes", Root, "direct",
               [exc |-> NoException, value |-> iter_attributes(tree)])
  /\ UNCHANGED readvars

\* The calls that change the trees the reads are made on: a template
\* instance created (properly, and below a template), a leaf of a scalar
\* set, a definition set, a subtree renamed, a leaf renamed onto its sibling.
ReadSetCalls == { <<ABC, "d2">>, <<MNameNBar, "d1">> }

ReadInsertAttributes == { MFoo, SBar }

ReadRenamePairs == { <<A, K>>, <<AD, AB>> }

ReadNext ==
  \/ \E call \in ReadSetCalls : SetDefinition(call[1], call[2])
  \/ \E attribute \in ReadInsertAttributes : InsertAttribute(attribute)
  \/ \E pair \in ReadRenamePairs : RenameAttribute(pair[1], pair[2])
  \/ \E attribute \in ReadAttributes : GetDefinition(attribute)
  \/ \E attribute \in ReadAttributes : GetInMemoryDefinition(attribute)
  \/ \E attribute \in ReadAttributes : GetConfiguredDefinition(attribute)
  \/ \E attribute \in ReadAttributes : GetSystemDefaultDefinition(attribute)
  \/ \E attribute \in ReadAttributes : GetType(attribute)
  \/ \E attribute \in ReadAttributes : GetDescription(attribute)
  \/ \E attribute \in ReadAttributes : IsReadonly(attribute)
  \/ \E attribute \in ReadAttributes, mode \in Modes : Children(attribute, mode)
  \/ \E attribute \in ReadAttributes : GetNextBranchingOption(attribute)
  \/ IterAttributeData
  \/ IterAttributes

\* The tree under its mutations and every read
ReadSpec == Init /\ [][ReadNext]_vars

\* ================================================================== claims

Data(attribute) == tree[attribute].data

\* The first defined definition of a list of layers, Undefined when none is
FirstDefined(layers) ==
  IF \E i \in 1..Len(layers) : layers[i] # Undefined
  THEN layers[CHOOSE i \in 1..Len(layers) :
                /\ layers[i] # Undefined
                /\ \A j \in 1..(i - 1) : layers[j] = Undefined]
  ELSE Undefined

\* C1: for every attribute of the tree and every combination of the two
\* inclusion flags, get_definition returns the first defined one of: the
\* in-memory definition (when its inclusion is enabled), the configured
\* definition (when its inclusion is enabled), the system default; and the
\* undefined sentinel when none of them is defined.
C1_ResolutionPrecedence ==
  \A attribute \in DOMAIN tree :
    \A include_in_memory \in BOOLEAN, include_configured \in BOOLEAN :
      get_definition(tree, attribute, include_in_memory, include_configured) =
        FirstDefined(
          (IF include_in_memory THEN <<Data(attribute).in_memory_definition>> ELSE <<>>)
          \o (IF include_configured THEN <<Data(attribute).configured_definition>> ELSE <<>>)
          \o <<Data(attribute).system_default_definition>>)

\* C1 witness: one tree holds an attribute whose three layers are all defined
\* with an in-memory definition unlike the configured one, an attribute with
\* only a configured definition, one with only a system default and one with
\* no definition at all.
C1_Witness ==
  /\ \E a \in DOMAIN tree :
       /\ Data(a).in_memory_definition # Undefined
       /\ Data(a).configured_definition # Undefined
       /\ Data(a).system_default_definition # Undefined
       /\ Data(a).in_memory_definition # Data(a).configured_definition
       /\ Data(a).configured_definition # Data(a).system_default_definition
  /\ \E a \in DOMAIN tree :
       /\ Data(a).in_memory_definition = Undefined
       /\ Data(a).configured_definition # Undefined
       /\ Data(a).system_default_definition = Undefined
  /\ \E a \in DOMAIN tree :
       /\ Data(a).in_memory_definition = Undefined
       /\ Data(a).configured_definition = Undefined
       /\ Data(a).system_default_definition # Undefined
  /\ \E a \in DOMAIN tree :
       /\ Data(a).in_memory_definition = Undefined
       /\ Data(a).configured_definition = Undefined
       /\ Data(a).system_default_definition = Undefined

YieldedAttributes(get_configured_changes) ==
  LET it == iter_changes(tree, in_memory_change_cache, configured_change_cache,
                         get_configured_changes)
  IN  { it.yielded[k][1] : k \in 1..Len(it.yielded) }

\* C3: a call set_definition(a, configured_definition(a)) on an attribute of
\* the tree leaves a absent from in_memory_change_cache, and iter_changes
\* over the in-memory cache then yields no triple for a.
C3_RevertToConfigured ==
  [][ ( /\ last'.op = "set_definition"
        /\ last'.attribute \in DOMAIN tree
        /\ last'.definition = Data(last'.attribute).configured_definition )
      => ( /\ last'.exc = NoException
           /\ ~DictHas(in_memory_change_cache', last'.attribute)
           /\ \A k \in 1..Len(iter_changes(tree', in_memory_change_cache',
                                           configured_change_cache', FALSE).yielded) :
                iter_changes(tree', in_memory_change_cache',
                             configured_change_cache', FALSE).yielded[k][1]
                  # last'.attribute ) ]_vars

\* C3 witness: the last call set an attribute that was a key of the cache
\* back to its defined configured definition, and the key is gone.
C3_Witness ==
  /\ last.op = "set_definition" /\ last.exc = NoException
  /\ last.existed /\ last.was_cached
  /\ last.definition # Undefined
  /\ last.definition = Data(last.attribute).configured_definition
  /\ ~DictHas(in_memory_change_cache, last.attribute)

\* C4: a call set_definition(a, v) that directly follows the same call leaves
\* the tree and both change caches as they were; the in-memory cache holds at
\* most one item for a and iter_changes yields at most one triple for any
\* attribute.
C4_SetDefinitionIdempotent ==
  [][ ( /\ last.op = "set_definition"
        /\ last'.op = "set_definition"
        /\ last'.attribute = last.attribute
        /\ last'.definition = last.definition )
      => ( /\ tree' = tree
           /\ in_memory_change_cache' = in_memory_change_cache
           /\ configured_change_cache' = configured_change_cache
           /\ Cardinality({ i \in 1..Len(in_memory_change_cache') :
                              in_memory_change_cache'[i][1] = last'.attribute }) <= 1
           /\ \A get_configured_changes \in BOOLEAN :
                LET it == iter_changes(tree', in_memory_change_cache',
                                       configured_change_cache', get_configured_changes)
                IN  \A i, j \in 1..Len(it.yielded) :
                      it.yielded[i][1] = it.yielded[j][1] => i = j ) ]_vars

\* C4 witness: the last call repeated the set_definition before it, for a
\* definition unlike the configured one, and the cache holds its one item.
C4_Witness ==
  /\ last.op = "set_definition" /\ last.exc = NoException
  /\ last.repeated
  /\ last.definition # Data(last.attribute).configured_definition
  /\ DictHas(in_memory_change_cache, last.attribute)
  /\ YieldedAttributes(FALSE) = {last.attribute}

\* The old definition iter_changes compares a cached definition with: the
\* configured definition, else the system default; the system default alone
\* when the configured changes are enumerated.
OldDefinition(attribute, get_configured_changes) ==
  FirstDefined(
    (IF get_configured_changes THEN <<>> ELSE <<Data(attribute).configured_definition>>)
    \o <<Data(attribute).system_default_definition>>)

SelectedCache(get_configured_changes) ==
  IF get_configured_changes THEN configured_change_cache ELSE in_memory_change_cache

\* C5 as stated: iter_changes yields a triple (a, old, new) for exactly the
\* keys a of the selected cache whose cached definition new differs from old,
\* the definition get_definition gives for a with the in-memory layer (and,
\* for the configured changes, the configured layer) suppressed; no yielded
\* triple has old equal to new.
C5_IterChangesExact ==
  \A get_configured_changes \in BOOLEAN :
    LET cache == SelectedCache(get_configured_changes)
        it    == iter_changes(tree, in_memory_change_cache, configured_change_cache,
                              get_configured_changes)
    IN  /\ it.exc = NoException
        /\ DictKeys(cache) \subseteq DOMAIN tree
        /\ { it.yielded[k] : k \in 1..Len(it.yielded) } =
             { <<cache[i][1], OldDefinition(cache[i][1], get_configured_changes),
                 cache[i][2]>> :
               i \in { j \in 1..Len(cache) :
                         cache[j][2] # OldDefinition(cache[j][1], get_configured_changes) } }
        /\ \A k \in 1..Len(it.yielded) : it.yielded[k][2] # it.yielded[k][3]

\* The strict prefixes of a set of attributes, the root included
StrictPrefixes(attributes) ==
  UNION { { Prefix(a, i) : i \in 0..(Len(a) - 1) } : a \in attributes }

\* C6 as stated: get_change_set_with_ancestors returns exactly the strict
\* prefixes of the attributes iter_changes yields for the same flag.
C6_ReturnsStrictAncestors ==
  (last.op = "get_change_set_with_ancestors" /\ last.exc = NoException) =>
    last.value = StrictPrefixes(YieldedAttributes(last.flag))

\* C7 as stated: the result get_change_set_with_ancestors returns from its
\* memo equals what a fresh computation over the current tree and caches
\* produces.
C7_MemoCoherent ==
  \A get_configured_changes \in BOOLEAN :
    \A e \in MemoHit(get_configured_changes) :
      LET fresh == ChangeSetWithAncestors(tree, in_memory_change_cache,
                                          configured_change_cache, get_configured_changes)
      IN  fresh.exc = NoException /\ fresh.value = e.value

\* A call that materializes the missing child last'.attribute of a node p of
\* the tree, made by insert_attribute or set_definition
Materializes(p) ==
  /\ last'.op \in {"insert_attribute", "set_definition"}
  /\ last'.attribute # Root
  /\ p = get_set(last'.attribute)
  /\ p \in DOMAIN tree
  /\ last'.attribute \notin DOMAIN tree
  /\ get_end(last'.attribute) # NAME

\* The data a materialized node holds when the call is done: the cloned
\* data, with the in-memory definition set_definition then assigns
AfterCall(data, attribute) ==
  IF last'.op = "set_definition" /\ attribute = last'.attribute
  THEN [data EXCEPT !.in_memory_definition = last'.definition]
  ELSE data

\* C8 as stated: materializing the missing child p.foo of an "attribute set
\* of submodules" p that has a template subtree at p.<name> adds exactly the
\* nodes of the template subtree with the <name> segment of the template
\* replaced by foo, each with the template node's record and the same
\* parent/child shape; the template subtree and all other nodes stay.
C8_SubmoduleFanOut ==
  [][ \A p \in DOMAIN tree :
        ( /\ Materializes(p)
          /\ Data(p)["_type"] = "attribute set of submodules"
          /\ from_insertion(p, NAME) \in DOMAIN tree )
        => LET template == Descendants(tree, from_insertion(p, NAME))
               Instance(n) == [n EXCEPT ![Len(p) + 1] = get_end(last'.attribute)]
           IN  /\ last'.exc = NoException
               /\ DOMAIN tree' = DOMAIN tree \cup { Instance(n) : n \in template }
               /\ \A n \in template :
                    /\ tree'[Instance(n)].data = AfterCall(tree[n].data, Instance(n))
                    /\ tree'[Instance(n)].pred =
                         IF n = from_insertion(p, NAME) THEN <<p>>
                         ELSE <<Instance(tree[n].pred[1])>>
                    /\ tree'[Instance(n)].succ =
                         [ i \in 1..Len(tree[n].succ) |-> Instance(tree[n].succ[i]) ]
               /\ \A n \in DOMAIN tree \ {p} : tree'[n] = tree[n]
               /\ tree'[p].data = tree[p].data ]_vars

\* C9: materializing the missing child p.bar of a node p typed "attribute set
\* of X", X not "submodules", creates the one node p.bar, without children,
\* whose record is p's record but for the type, which is p's type without the
\* "attribute set of " before it and the "s" after it.
C9_ScalarFanOut ==
  [][ \A p \in DOMAIN tree :
        ( /\ Materializes(p)
          /\ StartsWith(Data(p)["_type"], "attribute set of ")
          /\ Data(p)["_type"] # "attribute set of submodules" )
        => /\ last'.exc = NoException
           /\ DOMAIN tree' = DOMAIN tree \cup {last'.attribute}
           /\ tree'[last'.attribute].succ = <<>>
           /\ tree'[last'.attribute].pred = <<p>>
           /\ "attribute set of " \o tree'[last'.attribute].data["_type"] \o "s"
                = Data(p)["_type"]
           /\ \A f \in DOMAIN OptionData \ {"_type"} :
                tree'[last'.attribute].data[f] =
                  AfterCall(Data(p), last'.attribute)[f]
           /\ \A n \in DOMAIN tree \ {p} : tree'[n] = tree[n]
           /\ tree'[p].data = tree[p].data ]_vars

\* C9 witness: the last call created s.bar below the "attribute set of
\* strings" s, which holds a configured definition that s.bar now holds too.
C9_Witness ==
  /\ last.op = "insert_attribute" /\ last.attribute = SBar
  /\ ~last.existed /\ last.exc = NoException
  /\ Data(S)["_type"] = "attribute set of strings"
  /\ Data(S).configured_definition # Undefined
  /\ Data(SBar)["_type"] = "string"
  /\ Data(SBar).configured_definition = Data(S).configured_definition
  /\ tree[SBar].pred = <<S>>

\* The attribute a node of the renamed subtree is found at after the rename
Relocated(n, old_attribute, new_attribute) ==
  new_attribute \o SubSeq(n, Len(old_attribute) + 1, Len(n))

\* C10 as stated: rename_attribute(old, new) of an attribute of the tree
\* relocates the subtree: every former node old+suffix is found at new+suffix
\* with the same record and the same parent/child shape, no node with the
\* prefix old is left, every other node is unchanged (but for the child
\* lists of the parents of old and new), and the number of nodes is the
\* same.
C10_RenameRelocatesSubtree ==
  [][ ( /\ last'.op = "rename_attribute"
        /\ last'.attribute \in DOMAIN tree )
      => LET old == last'.attribute
             new == last'.new_attribute
             moved == { n \in DOMAIN tree : IsPrefixOf(old, n) }
             To(n) == Relocated(n, old, new)
         IN  /\ last'.exc = NoException
             /\ \A n \in moved :
                  /\ To(n) \in DOMAIN tree'
                  /\ tree'[To(n)].data = tree[n].data
                  /\ tree'[To(n)].succ =
                       [ i \in 1..Len(tree[n].succ) |-> To(tree[n].succ[i]) ]
                  /\ n # old => tree'[To(n)].pred = <<To(tree[n].pred[1])>>
             /\ \A n \in DOMAIN tree' : ~IsPrefixOf(old, n)
             /\ \A n \in DOMAIN tree \ moved :
                  /\ n \in DOMAIN tree'
                  /\ tree'[n].data = tree[n].data
                  /\ tree'[n].pred = tree[n].pred
                  /\ n \notin {get_set(old), get_set(new)} => tree'[n].succ = tree[n].succ
             /\ Cardinality(DOMAIN tree') = Cardinality(DOMAIN tree) ]_vars

\* The tree the first loop of __init__ builds from system_option_data
SystemTree ==
  LoadSystemOptions([tree |-> EmptyTree, exc |-> NoException], SystemOptionData, 1).tree

\* C11: the construction does not fail on a config_options entry whose
\* attribute has no node in the tree built from system_option_data: the
\* entry creates no node, sets no configured definition and adds no key to
\* configured_change_cache, and the other entries are processed; every entry
\* whose attribute has a node has its value as the node's configured
\* definition.
C11_AbsentConfigEntryDropped ==
  last.op = "construct" =>
    LET items == last.config_options
        Supplied(n) == \E i \in 1..Len(items) : items[i][1] = n
    IN  /\ last.exc = NoException
        /\ DOMAIN tree = DOMAIN SystemTree
        /\ \A i \in 1..Len(items) :
             IF items[i][1] \in DOMAIN SystemTree
             THEN Data(items[i][1]).configured_definition = items[i][2]
             ELSE /\ items[i][1] \notin DOMAIN tree
                  /\ ~DictHas(configured_change_cache, items[i][1])
        /\ \A n \in DOMAIN tree :
             ~Supplied(n) => /\ tree[n] = SystemTree[n]
                             /\ ~DictHas(configured_change_cache, n)

\* C11 witness: a tree constructed from config_options whose second entry,
\* z.q, has no node, and whose third entry, a.d, is stored.
C11_Witness ==
  /\ last.op = "construct" /\ last.exc = NoException
  /\ Len(last.config_options) = 3
  /\ last.config_options[2][1] = ZQ /\ ZQ \notin DOMAIN SystemTree
  /\ ZQ \notin DOMAIN tree
  /\ last.config_options[3][1] = AD
  /\ Data(AD).configured_definition = last.config_options[3][2]

\* The accessors that read a record through _get_data
Accessors ==
  { "get_definition", "get_in_memory_definition", "get_configured_definition",
    "get_system_default_definition", "get_type", "get_description", "is_readonly" }

BelowTemplate(attribute, n) ==
  SegmentIn(NAME, SubSeq(n, Len(attribute) + 1, Len(n)))

\* C13 as stated: iter_attribute_data and iter_attributes return the nodes
\* whose path holds no <name> segment, and all of them; children(attribute)
\* returns, in mode "direct", the children of attribute but for its <name>
\* template child and, in mode "leaves", the leaves below attribute but for
\* those of its template subtrees.
C13_TemplatesExcluded ==
  /\ last.op \in {"iter_attribute_data", "iter_attributes"}
       => last.value = { n \in DOMAIN tree : ~SegmentIn(NAME, n) }
  /\ (last.op = "children" /\ last.exc = NoException /\ last.mode = "direct")
       => last.value = { n \in TreeChildren(tree, last.attribute) :
                           ~BelowTemplate(last.attribute, n) }
  /\ (last.op = "children" /\ last.exc = NoException /\ last.mode = "leaves")
       => last.value = { n \in TreeLeaves(tree, last.attribute) :
                           ~BelowTemplate(last.attribute, n) }

\* The attribute reached from attribute by descending to the only child
\* while there is exactly one child
RECURSIVE OnlyChildDescent(_, _, _)
OnlyChildDescent(t, attribute, fuel) ==
  IF Cardinality(TreeChildren(t, attribute)) = 1 /\ fuel > 0
  THEN OnlyChildDescent(t, CHOOSE c \in TreeChildren(t, attribute) : TRUE, fuel - 1)
  ELSE attribute

\* C14 as stated: for an attribute of the tree get_next_branching_option
\* returns the attribute reached by descending to the only child while the
\* current node has exactly one child; it is the start attribute or one of
\* its descendants and has no child or more than one.
C14_NextBranchingOption ==
  ( /\ last.op = "get_next_branching_option"
    /\ last.attribute \in DOMAIN tree
    /\ Descendants(tree, last.attribute) \subseteq DOMAIN tree )
  => /\ last.exc = NoException
     /\ last.value = { OnlyChildDescent(tree, last.attribute, Cardinality(DOMAIN tree)) }
     /\ \A a \in last.value :
          /\ a \in Descendants(tree, last.attribute)
          /\ Cardinality(TreeChildren(tree, a)) # 1

\* C15 as stated: after a call of set_definition, insert_attribute or
\* rename_attribute the change marker differs from its value before the
\* call.
C15_MarkerRegenerated ==
  [][ ( /\ ops' = ops + 1
        /\ last'.op \in {"set_definition", "insert_attribute", "rename_attribute"} )
      => change_marker' # change_marker ]_vars

\* C16 as stated: after construction an attribute of the tree is a key of
\* configured_change_cache exactly when config_options supplies a definition
\* for it that differs from its system default definition.
C16_ConfiguredCacheIffDiffers ==
  last.op = "construct" =>
    \A n \in DOMAIN tree :
      DictHas(configured_change_cache, n)
        <=> /\ \E i \in 1..Len(last.config_options) : last.config_options[i][1] = n
            /\ Data(n).configured_definition # Data(n).system_default_definition

\* The nodes that list n among their children
ParentsOf(n) == { q \in DOMAIN tree : \E i \in 1..Len(tree[q].succ) : tree[q].succ[i] = n }

\* C17 as stated: the root exists, and every other node has exactly one
\* parent, the node at its own path without the last segment.
C17_TreeShape ==
  /\ Root \in DOMAIN tree
  /\ \A n \in DOMAIN tree \ {Root} :
       /\ get_set(n) \in DOMAIN tree
       /\ tree[n].pred = <<get_set(n)>>
       /\ ParentsOf(n) = {get_set(n)}

\* The attribute and its ancestors: the prefixes of the path
PrefixesOf(attribute) == { Prefix(attribute, i) : i \in 0..Len(attribute) }

\* What set_definition leaves alone in every case: each node of the tree is
\* still there, with its record, but for the in-memory definition of the
\* attribute the call names; configured_change_cache is as it was.
SetDefinitionKeeps ==
  /\ \A n \in DOMAIN tree :
       /\ n \in DOMAIN tree'
       /\ \A f \in DOMAIN OptionData :
            (n # last'.attribute \/ f # "in_memory_definition")
              => tree'[n].data[f] = tree[n].data[f]
  /\ configured_change_cache' = configured_change_cache

\* C18 as stated: set_definition(a, v), when it returns, has changed only
\* the in-memory definition of a; the other fields of a, the records of the
\* other nodes the tree had and configured_change_cache are unchanged, and
\* the only nodes the call creates are a and its missing ancestors.
C18_SetDefinitionFrame ==
  [][ ( ops' = ops + 1 /\ last'.op = "set_definition" /\ last'.exc = NoException )
      => /\ SetDefinitionKeeps
         /\ DOMAIN tree' \ DOMAIN tree \subseteq PrefixesOf(last'.attribute) ]_vars

\* C18 amended: set_definition(a, v) keeps every node the tree had, with its
\* record but for the in-memory definition of a, and keeps
\* configured_change_cache; when it returns, the in-memory definition of a is
\* v; a node it creates is a, an ancestor of a, or a clone of a template node
\* (its record is that of a node the tree had at a path with a <name>
\* segment).
C18_SetDefinitionFrameWithClones ==
  [][ ( ops' = ops + 1 /\ last'.op = "set_definition" )
      => /\ SetDefinitionKeeps
         /\ last'.exc = NoException
              => /\ last'.attribute \in DOMAIN tree'
                 /\ tree'[last'.attribute].data.in_memory_definition = last'.definition
         /\ \A n \in DOMAIN tree' \ DOMAIN tree :
              \/ n \in PrefixesOf(last'.attribute)
              \/ \E q \in DOMAIN tree :
                   SegmentIn(NAME, q) /\ tree'[n].data = tree[q].data ]_vars

\* C18 witness: set_definition(m.foo.n.bar, d1) on a tree without m.foo
\* returned, the nodes the tree had kept their description and type, and
\* the tree gained the clone m.foo.n.<name>, which is not on the path.
C18_Witness ==
  /\ last.op = "set_definition" /\ last.attribute = MFooNBar
  /\ last.exc = NoException /\ ops = 1
  /\ Data(MFooNBar).in_memory_definition = last.definition
  /\ MFooNName \in DOMAIN tree /\ MFooNName \notin PrefixesOf(MFooNBar)
  /\ Data(MFooNName) = Data(MNameNName)
  /\ Data(M).description = "instances"

\* C19 as stated: insert_attribute(a) creates a and its missing ancestors
\* with an undefined in-memory definition, leaves the records of the nodes
\* the tree had and both change caches unchanged, and changes nothing when a
\* has a node.
C19_InsertAssignsNoDefinition ==
  [][ ( ops' = ops + 1 /\ last'.op = "insert_attribute" )
      => /\ \A n \in DOMAIN tree' \ DOMAIN tree :
              tree'[n].data.in_memory_definition = Undefined
         /\ \A n \in DOMAIN tree :
              n \in DOMAIN tree' /\ tree'[n].data = tree[n].data
         /\ in_memory_change_cache' = in_memory_change_cache
         /\ configured_change_cache' = configured_change_cache
         /\ last'.attribute \in DOMAIN tree => tree' = tree ]_vars

\* C20 as stated: when insert_attribute or set_definition creates the
\* missing child of a node p, the child is a plain node, of type "attribute
\* set" with its three definitions undefined, unless the type of p starts
\* with "attribute set of" and the new segment is not <name> (then it is
\* cloned from a template).
C20_PlainUnlessAttributeSet ==
  [][ \A p \in DOMAIN tree :
        ( /\ ops' = ops + 1
          /\ last'.op \in {"insert_attribute", "set_definition"}
          /\ last'.attribute # Root
          /\ p = get_set(last'.attribute)
          /\ last'.attribute \notin DOMAIN tree
          /\ ~( /\ StartsWith(Data(p)["_type"], "attribute set of")
                /\ get_end(last'.attribute) # NAME ) )
        => /\ last'.exc = NoException
           /\ DOMAIN tree' = DOMAIN tree \cup {last'.attribute}
           /\ tree'[last'.attribute].data = AfterCall(PlainData, last'.attribute) ]_vars

====
